---- MODULE Spec2Model ----
(***************************************************************************)
(* BananaPicGen: the batch orchestrator of App (handleProcess and the      *)
(* handlers around it), the TokenUsage ledger it feeds, and the            *)
(* PromptEditor with its autosave to the user document.                    *)
(*                                                                         *)
(* Conventions.  A JavaScript string is a sequence of one-character        *)
(* strings, so that trim() and template concatenation are computed and not *)
(* assumed.  An error message is a sequence of words, so that              *)
(* String.includes is a search.  Arrays are 1-based here and 0-based in    *)
(* the source.  Money is counted in millionths of a dollar.  `undefined`   *)
(* optional fields are the empty sequence.  userDoc is <<>> for null and   *)
(* <<doc>> for a loaded document.                                          *)
(***************************************************************************)
EXTENDS Integers, Sequences, FiniteSets, TLC

VARIABLES
    userDoc,            \* App state: UserDocument | null
    isLoadingUserDoc,   \* App state
    hasKey,             \* App state
    aistudio,           \* environment: window.aistudio is present
    selectedFiles,      \* App state: File[]
    results,            \* App state: ProcessingResult[]
    logs,               \* the entries appended to the log by the latest logging step
    isProcessing,       \* App state
    tokenUsage,         \* App state: TokenUsage
    selectedModel,      \* App state
    now,                \* Date.now() as handleProcess reads it: it has advanced at each batch start
    runs,               \* suspended handleProcess invocations (each awaits one generation call)
    issued,             \* history: indices of the current batch whose generation call was issued
    failures,           \* history: failed calls of the current batch
    usageAtStart,       \* history: the image counters of tokenUsage when the current batch started
    resetSince,         \* history: Clear or model switch since the current batch started
    localStorage,       \* the token-usage entry of localStorage: <<>> for none, <<object>> otherwise
    editor,             \* PromptEditor: its state and refs between renders
    remote,             \* the user document in the remote store
    saves,              \* handleSavePrompts invocations awaiting their remote write, oldest first
    tick,               \* history: what the latest autosave tick saw and did
    edits,              \* history: number of edit handlers run so far
    lastEdit,           \* history: the editor's snapshot as the latest edit handler left it
    configEditor,       \* ConfigEditor and the config state of the App that renders it
    devices             \* the browsers signed in to one account, each with its own ledger

vars == <<userDoc, isLoadingUserDoc, hasKey, aistudio, selectedFiles, results, logs,
          isProcessing, tokenUsage, selectedModel, now, runs, issued, failures,
          usageAtStart, resetSince, localStorage, editor, remote, saves, tick, edits,
          lastEdit, configEditor, devices>>

editorVars == <<editor, remote, saves, tick, edits, lastEdit>>

otherVars == <<configEditor, devices>>

----------------------------------------------------------------------------
(* Bounds *)

MaxPrompts == 2     \* longest prompt list of the task-construction specification
MaxTime == 2        \* the clock stops here, and no batch starts after it
MaxClock == 10      \* the editor's clock is followed up to here
MaxEdits == 2       \* edit handlers run in one behaviour of the editor specifications
MaxImages == 2      \* generation calls added to the ledger in the ledger specification

----------------------------------------------------------------------------
(* Strings *)

WhiteSpace == {" ", "\n"}

RECURSIVE TrimStart(_)
TrimStart(s) == IF s # <<>> /\ Head(s) \in WhiteSpace THEN TrimStart(Tail(s)) ELSE s

RECURSIVE TrimEnd(_)
TrimEnd(s) == IF s # <<>> /\ s[Len(s)] \in WhiteSpace THEN TrimEnd(SubSeq(s, 1, Len(s) - 1)) ELSE s

Trim(s) == TrimEnd(TrimStart(s))

Includes(hay, needle) ==
    \E k \in 1..(Len(hay) + 1) : k + Len(needle) - 1 <= Len(hay)
                                 /\ SubSeq(hay, k, k + Len(needle) - 1) = needle

----------------------------------------------------------------------------
(* TokenUsage *)

Models == {"gemini-2.5-flash-image", "gemini-3-pro-image-preview"}

PRICING ==
    [m \in Models |->
        IF m = "gemini-2.5-flash-image"
        THEN [input |-> 0, output_text |-> 0, output_image |-> 0, output_imageflat |-> 39000]
        ELSE [input |-> 2, output_text |-> 12, output_image |-> 120, output_imageflat |-> 0]]

UsageFields == {"total", "input", "output_image", "output_text", "images",
                "total_cost", "historic_cost", "historic_images"}

\* new TokenUsage(data): every absent field defaults to 0
TokenUsageNew(data) == [f \in UsageFields |-> IF f \in DOMAIN data THEN data[f] ELSE 0]

ToJSON_NoHistoricImages(t) == [f \in UsageFields \ {"historic_images"} |-> t[f]]

ToJSON(t) == [f \in UsageFields |-> t[f]]

FromJSON(data) == TokenUsageNew(data)

AddItem_NoHistoricImage(t, input, output_text, output_image, model) ==
    LET pricing == PRICING[model]
        itemCost == input * pricing.input + output_text * pricing.output_text
                    + output_image * pricing.output_image + pricing.output_imageflat
    IN [t EXCEPT !.input = @ + input,
                 !.output_text = @ + output_text,
                 !.output_image = @ + output_image,
                 !.total = @ + input + output_text + output_image,
                 !.images = @ + 1,
                 !.total_cost = @ + itemCost,
                 !.historic_cost = @ + itemCost]

AddItem_SessionCostOnly(t, input, output_text, output_image, model) ==
    LET pricing == PRICING[model]
        itemCost == input * pricing.input + output_text * pricing.output_text
                    + output_image * pricing.output_image + pricing.output_imageflat
    IN [t EXCEPT !.input = @ + input,
                 !.output_text = @ + output_text,
                 !.output_image = @ + output_image,
                 !.total = @ + input + output_text + output_image,
                 !.images = @ + 1,
                 !.total_cost = @ + itemCost,
                 !.historic_images = @ + 1]

AddItem_NoFlatRate(t, input, output_text, output_image, model) ==
    LET pricing == PRICING[model]
        itemCost == input * pricing.input + output_text * pricing.output_text
                    + output_image * pricing.output_image
    IN [t EXCEPT !.input = @ + input,
                 !.output_text = @ + output_text,
                 !.output_image = @ + output_image,
                 !.total = @ + input + output_text + output_image,
                 !.images = @ + 1,
                 !.total_cost = @ + itemCost,
                 !.historic_cost = @ + itemCost,
                 !.historic_images = @ + 1]

AddItem(t, input, output_text, output_image, model) ==
    LET pricing == PRICING[model]
        itemCost == input * pricing.input + output_text * pricing.output_text
                    + output_image * pricing.output_image + pricing.output_imageflat
    IN [t EXCEPT !.input = @ + input,
                 !.output_text = @ + output_text,
                 !.output_image = @ + output_image,
                 !.total = @ + input + output_text + output_image,
                 !.images = @ + 1,
                 !.total_cost = @ + itemCost,
                 !.historic_cost = @ + itemCost,
                 !.historic_images = @ + 1]

Reset_KeepsCost(t) == [t EXCEPT !.total = 0, !.input = 0, !.output_image = 0,
                                !.output_text = 0, !.images = 0]

Reset(t) == [t EXCEPT !.total = 0, !.input = 0, !.output_image = 0, !.output_text = 0,
                      !.images = 0, !.total_cost = 0]

\* getCostBreakdown(model): the session's counters priced under `model`, the stored totals as they are
GetCostBreakdown_PerToken(t, model) ==
    LET pricing == PRICING[model]
    IN [inputCost |-> t.input * pricing.input,
        outputCost |-> t.output_text * pricing.output_text
                       + t.output_image * pricing.output_image,
        totalCost |-> t.total_cost,
        historic_cost |-> t.historic_cost]

GetCostBreakdown(t, model) ==
    LET pricing == PRICING[model]
    IN [inputCost |-> t.input * pricing.input,
        outputCost |-> t.output_text * pricing.output_text
                       + t.output_image * pricing.output_image
                       + t.images * pricing.output_imageflat,
        totalCost |-> t.total_cost,
        historic_cost |-> t.historic_cost]

\* A saved text is written as the object it parses to, together with its indentation
\* where the text is shown to the user; Unparsable stands for every text that JSON.parse
\* rejects with a SyntaxError.
Unparsable == [SyntaxError |-> TRUE]

\* JSON.parse(saved), with the exception as a result
JSONParse(text) ==
    IF text = Unparsable THEN [threw |-> TRUE, value |-> <<>>]
    ELSE IF "indent" \in DOMAIN text THEN [threw |-> FALSE, value |-> text.value]
    ELSE [threw |-> FALSE, value |-> text]

\* fromLocalStorage(key): the stored entry decoded, or a new TokenUsage when there is none
FromLocalStorage_Fresh(entry) == TokenUsageNew(<<>>)

FromLocalStorage(entry) ==
    IF entry # <<>> /\ ~JSONParse(entry[1]).threw
    THEN FromJSON(JSONParse(entry[1]).value)
    ELSE TokenUsageNew(<<>>)

\* saveToLocalStorage(key): localStorage.setItem(key, JSON.stringify(this.toJSON()))
SaveToLocalStorage_NoLifetime(t) == <<[ToJSON(t) EXCEPT !.historic_cost = 0]>>

SaveToLocalStorage(t) == <<ToJSON(t)>>

\* the "load historic data" effect: a remote value replaces the local one only when greater
LoadHistoric_Sum(t, doc) ==
    [FromJSON(ToJSON(t)) EXCEPT !.historic_cost = @ + doc.historic_cost,
                                !.historic_images = @ + doc.historic_images]

LoadHistoric(t, doc) ==
    LET cost == IF doc.historic_cost > t.historic_cost THEN doc.historic_cost ELSE t.historic_cost
        imgs == IF doc.historic_images > t.historic_images THEN doc.historic_images
                ELSE t.historic_images
    IN IF cost # t.historic_cost \/ imgs # t.historic_images
       THEN [FromJSON(ToJSON(t)) EXCEPT !.historic_cost = cost, !.historic_images = imgs]
       ELSE t

----------------------------------------------------------------------------
(* Inputs *)

pA == [name |-> <<"a">>, prompt |-> <<"x">>, enabled |-> TRUE, skip_beforeafter_prompt |-> FALSE]
pB == [name |-> <<"b">>, prompt |-> <<"y">>, enabled |-> TRUE, skip_beforeafter_prompt |-> FALSE]
pDup == [name |-> <<"a">>, prompt |-> <<"y">>, enabled |-> TRUE, skip_beforeafter_prompt |-> TRUE]
pEmpty == [name |-> <<"b">>, prompt |-> <<>>, enabled |-> TRUE, skip_beforeafter_prompt |-> FALSE]
pBlank == [name |-> <<" ">>, prompt |-> <<"x">>, enabled |-> TRUE, skip_beforeafter_prompt |-> FALSE]
pOff == [name |-> <<"b">>, prompt |-> <<"x">>, enabled |-> FALSE, skip_beforeafter_prompt |-> FALSE]

ItemPool == {pA, pB, pDup, pEmpty, pBlank, pOff}

BeforeTexts == {<<>>, <<"B">>}
AfterTexts == {<<>>, <<"A">>}

\* every prompt list of at most MaxPrompts items
AllPromptLists == UNION {[1..n -> ItemPool] : n \in 0..MaxPrompts}

\* the snapshots the editor moves between in the application specification
EditedSnapshots ==
    {[prompts |-> <<pOff>>, prompt_before |-> <<>>, prompt_after |-> <<>>],
     [prompts |-> <<pA, pEmpty, pDup>>, prompt_before |-> <<"B">>, prompt_after |-> <<"A">>]}

RemoteHistoric == {[historic_cost |-> 0, historic_images |-> 0],
                   [historic_cost |-> 39000, historic_images |-> 1]}

FileSets == {<<"f1", "f2">>}

Usages == {[input |-> 1, output_text |-> 1, output_image |-> 2]}

NotFoundText == <<"Requested", "entity", "was", "not", "found">>

ErrorMessages == {<<"404:">> \o NotFoundText \o <<".">>,
                  <<"No", "image", "data", "found", "in", "response">>}

ImageUrl == <<"data:image/png;base64">>

Undefined == <<>>

ZeroUsage == TokenUsageNew(<<>>)

----------------------------------------------------------------------------
(* handleProcess: preconditions and task construction *)

Log(type, message) == [type |-> type, message |-> message]

\* userDoc.prompts.filter(p => p.enabled && p.name.trim())
EnabledPrompts_EnabledOnly(prompts) == SelectSeq(prompts, LAMBDA p : p.enabled)

EnabledPrompts(prompts) == SelectSeq(prompts, LAMBDA p : p.enabled /\ Trim(p.name) # <<>>)

\* the four early returns of handleProcess, in source order; "none" when the batch may start
RejectReason_NoKeyCheck(doc, files, key) ==
    IF doc = <<>> \/ Len(doc[1].prompts) = 0 THEN "Error: No prompts configured."
    ELSE IF Len(EnabledPrompts(doc[1].prompts)) = 0 THEN "Error: No prompts selected."
    ELSE IF Len(files) = 0 THEN "Error: No files selected."
    ELSE "none"

RejectReason(doc, files, key) ==
    IF doc = <<>> \/ Len(doc[1].prompts) = 0 THEN "Error: No prompts configured."
    ELSE IF Len(EnabledPrompts(doc[1].prompts)) = 0 THEN "Error: No prompts selected."
    ELSE IF Len(files) = 0 THEN "Error: No files selected."
    ELSE IF ~key THEN "Error: API Key not configured."
    ELSE "none"

\* `${beforeText}${beforeText ? '\n' : ''}${basePrompt}${afterText ? '\n' : ''}${afterText}`.trim()
FullPrompt(beforeText, basePrompt, afterText) ==
    Trim(beforeText \o (IF beforeText # <<>> THEN <<"\n">> ELSE <<>>)
         \o basePrompt \o (IF afterText # <<>> THEN <<"\n">> ELSE <<>>) \o afterText)

\* enabledPrompts.forEach(prompt => tasks.push({...}))
BuildTasks_Partitioned(doc, files, time) ==
    LET enabledPrompts == EnabledPrompts(doc.prompts)
    IN [k \in 1..Len(enabledPrompts) |->
          [id |-> <<enabledPrompts[k].name, time>>,
           files |-> <<files[((k - 1) % Len(files)) + 1]>>,
           promptName |-> enabledPrompts[k].name,
           promptText |-> FullPrompt(doc.prompt_before, enabledPrompts[k].prompt,
                                     doc.prompt_after),
           status |-> "pending",
           imageUrl |-> Undefined,
           error |-> Undefined]]

BuildTasks(doc, files, time) ==
    LET enabledPrompts == EnabledPrompts(doc.prompts)
    IN [k \in 1..Len(enabledPrompts) |->
          [id |-> <<enabledPrompts[k].name, time>>,
           files |-> files,
           promptName |-> enabledPrompts[k].name,
           promptText |-> FullPrompt(doc.prompt_before, enabledPrompts[k].prompt,
                                     doc.prompt_after),
           status |-> "pending",
           imageUrl |-> Undefined,
           error |-> Undefined]]

\* what { ...undefined, status, imageUrl, error } starts from when the index is past the end
Hole == [id |-> Undefined, files |-> Undefined, promptName |-> Undefined,
         promptText |-> Undefined, status |-> "undefined", imageUrl |-> Undefined,
         error |-> Undefined]

\* setResults(prev => { next = [...prev]; next[index] = {...next[index], status, imageUrl, error} })
UpdateResultStatus_Ignored(prev, index, status, imageUrl, error) == prev

UpdateResultStatus(prev, index, status, imageUrl, error) ==
    LET n == IF index > Len(prev) THEN index ELSE Len(prev)
        at(j) == IF j <= Len(prev) THEN prev[j] ELSE Hole
    IN [j \in 1..n |-> IF j = index
                       THEN [at(j) EXCEPT !.status = status, !.imageUrl = imageUrl,
                                          !.error = error]
                       ELSE at(j)]

\* top of the loop body: updateResultStatus(i, 'processing')
MarkProcessing_Skipped(prev, index) == prev

MarkProcessing(prev, index) == UpdateResultStatus(prev, index, "processing", Undefined, Undefined)

\* err.message && err.message.includes("Requested entity was not found")
IsCredentialError_Never(message) == FALSE

IsCredentialError_Always(message) == TRUE

IsCredentialError(message) == message # <<>> /\ Includes(message, NotFoundText)

\* if (window.aistudio) { setHasKey(false); }
HasKeyAfterCredentialError_Always(key, studio) == FALSE

HasKeyAfterCredentialError(key, studio) == IF studio THEN FALSE ELSE key

\* the RUN button is disabled while isProcessing; its other disabling conditions repeat
\* the checks handleProcess makes itself and are left to the handler
HandleProcessEnabled_Always(processing) == TRUE

HandleProcessEnabled(processing) == ~processing

Statuses(res) == [j \in 1..Len(res) |-> res[j].status]

Completed(res) == Cardinality({j \in 1..Len(res) : res[j].status = "completed"})

RemoveAt(s, n) == SubSeq(s, 1, n - 1) \o SubSeq(s, n + 1, Len(s))

----------------------------------------------------------------------------
(* Actions *)

\* the fetch of the user document on mount resolves; the load-historic effect follows
fetchUserDoc ==
    /\ isLoadingUserDoc
    /\ \E e \in EditedSnapshots, h \in RemoteHistoric :
         LET doc == [prompts |-> e.prompts, prompt_before |-> e.prompt_before,
                     prompt_after |-> e.prompt_after,
                     historic_cost |-> h.historic_cost, historic_images |-> h.historic_images]
         IN /\ userDoc' = <<doc>>
            /\ tokenUsage' = LoadHistoric(tokenUsage, doc)
            /\ localStorage' = IF tokenUsage' = tokenUsage THEN localStorage
                               ELSE SaveToLocalStorage(tokenUsage')
    /\ isLoadingUserDoc' = FALSE
    /\ logs' = <<Log("info", "User profile loaded.")>>
    /\ UNCHANGED <<editorVars, otherVars, hasKey, aistudio, selectedFiles, results, isProcessing, selectedModel, now,
                   runs, issued, failures, usageAtStart, resetSince>>

fetchUserDocFailed ==
    /\ isLoadingUserDoc
    /\ isLoadingUserDoc' = FALSE
    /\ logs' = <<Log("error", "Failed to load user profile.")>>
    /\ UNCHANGED <<editorVars, otherVars, userDoc, hasKey, aistudio, selectedFiles, results, isProcessing, tokenUsage, localStorage,
                   selectedModel, now, runs, issued, failures, usageAtStart, resetSince>>

\* the editor's onChange: setUserDoc(prev => prev ? {...prev, prompts, ...} : null)
handlePromptsChange ==
    /\ userDoc # <<>>
    /\ \E e \in EditedSnapshots :
         userDoc' = <<[userDoc[1] EXCEPT !.prompts = e.prompts,
                                         !.prompt_before = e.prompt_before,
                                         !.prompt_after = e.prompt_after]>>
    /\ UNCHANGED <<editorVars, otherVars, isLoadingUserDoc, hasKey, aistudio, selectedFiles, results, logs,
                   isProcessing, tokenUsage, localStorage, selectedModel, now, runs, issued, failures,
                   usageAtStart, resetSince>>

handleFileSelect ==
    /\ \E files \in FileSets : selectedFiles' = files
    /\ logs' = <<Log("info", "Selected file(s) from path.")>>
    /\ UNCHANGED <<editorVars, otherVars, userDoc, isLoadingUserDoc, hasKey, aistudio, results, isProcessing,
                   tokenUsage, localStorage, selectedModel, now, runs, issued, failures, usageAtStart,
                   resetSince>>

\* the Select Key button is rendered only while !hasKey
handleSelectKey ==
    /\ ~hasKey
    /\ IF aistudio
       THEN /\ hasKey' \in BOOLEAN
            /\ UNCHANGED logs
       ELSE /\ logs' = <<Log("error", "Key selection not available in local mode.")>>
            /\ UNCHANGED hasKey
    /\ UNCHANGED <<editorVars, otherVars, userDoc, isLoadingUserDoc, aistudio, selectedFiles, results, isProcessing,
                   tokenUsage, localStorage, selectedModel, now, runs, issued, failures, usageAtStart,
                   resetSince>>

\* the model <select>: setSelectedModel, then reset of the session counters
changeModel ==
    /\ \E m \in Models \ {selectedModel} : selectedModel' = m
    /\ tokenUsage' = Reset(FromJSON(ToJSON(tokenUsage)))
    /\ localStorage' = SaveToLocalStorage(tokenUsage')
    /\ resetSince' = TRUE
    /\ logs' = <<Log("info", "Model changed. Token usage cleared.")>>
    /\ UNCHANGED <<editorVars, otherVars, userDoc, isLoadingUserDoc, hasKey, aistudio, selectedFiles, results,
                   isProcessing, now, runs, issued, failures, usageAtStart>>

\* the Clear button is disabled while isProcessing
handleClear ==
    /\ ~isProcessing
    /\ results' = <<>>
    /\ tokenUsage' = Reset(FromJSON(ToJSON(tokenUsage)))
    /\ localStorage' = SaveToLocalStorage(tokenUsage')
    /\ logs' = <<Log("info", "Workspace and Console cleared.")>>
    /\ resetSince' = TRUE
    /\ issued' = {}
    /\ failures' = {}
    /\ UNCHANGED <<editorVars, otherVars, userDoc, isLoadingUserDoc, hasKey, aistudio, selectedFiles, isProcessing,
                   selectedModel, now, runs, usageAtStart>>

\* handleProcess up to its first await: the checks, the task list, and the first call
handleProcess ==
    /\ HandleProcessEnabled(isProcessing)
    /\ LET reason == RejectReason(userDoc, selectedFiles, hasKey)
       IN IF reason # "none"
          THEN /\ logs' = <<Log("error", reason)>>
               /\ UNCHANGED <<results, isProcessing, now, runs, issued, failures,
                              usageAtStart, resetSince>>
          ELSE LET tasks == BuildTasks(userDoc[1], selectedFiles, now)
               IN /\ now < MaxTime
                  /\ now' = now + 1
                  /\ isProcessing' = TRUE
                  /\ results' = MarkProcessing(tasks, 1)
                  /\ runs' = Append(runs, [tasks |-> tasks, i |-> 1,
                                           selectedModel |-> selectedModel,
                                           userDoc |-> userDoc[1]])
                  /\ issued' = {1}
                  /\ failures' = {}
                  /\ usageAtStart' = [images |-> tokenUsage.images,
                                        historic_images |-> tokenUsage.historic_images]
                  /\ resetSince' = FALSE
                  /\ logs' = <<Log("info", "Starting batch"), Log("info", "Queued tasks"),
                               Log("info", "Processing")>>
    /\ UNCHANGED <<editorVars, otherVars, userDoc, isLoadingUserDoc, hasKey, aistudio, selectedFiles, tokenUsage, localStorage,
                   selectedModel>>

\* the rest of the loop after task r.i is settled as res: the next call, or the end
LoopOn(n, res, entries) ==
    LET r == runs[n]
    IN IF r.i < Len(r.tasks)
       THEN /\ results' = MarkProcessing(res, r.i + 1)
            /\ runs' = [runs EXCEPT ![n].i = r.i + 1]
            /\ issued' = issued \cup {r.i + 1}
            /\ logs' = entries \o <<Log("info", "Processing")>>
            /\ UNCHANGED isProcessing
       ELSE /\ results' = res
            /\ runs' = RemoveAt(runs, n)
            /\ isProcessing' = FALSE
            /\ logs' = entries \o <<Log("success", "Batch processing finished.")>>
            /\ UNCHANGED issued

\* the awaited generateImageFromReference call of a run returns an image and its usage
GenerateResolved ==
    \E n \in 1..Len(runs), usage \in Usages :
      LET r == runs[n]
      IN /\ tokenUsage' = AddItem(FromJSON(ToJSON(tokenUsage)), usage.input, usage.output_text,
                                  usage.output_image, r.selectedModel)
         /\ localStorage' = SaveToLocalStorage(tokenUsage')
         /\ LoopOn(n, UpdateResultStatus(results, r.i, "completed", ImageUrl, Undefined),
                   <<Log("success", "Success")>>)
         /\ UNCHANGED <<editorVars, otherVars, userDoc, isLoadingUserDoc, hasKey, aistudio, selectedFiles,
                        selectedModel, now, failures, usageAtStart, resetSince>>

\* the awaited call throws
GenerateFailed ==
    \E n \in 1..Len(runs), message \in ErrorMessages :
      LET r == runs[n]
          res == UpdateResultStatus(results, r.i, "failed", Undefined, message)
      IN /\ IF IsCredentialError(message)
            THEN /\ hasKey' = HasKeyAfterCredentialError(hasKey, aistudio)
                 /\ results' = res
                 /\ runs' = RemoveAt(runs, n)
                 /\ isProcessing' = FALSE
                 /\ logs' = <<Log("error", "Failed"),
                              Log("error", "API Key might be invalid or expired."),
                              Log("success", "Batch processing finished.")>>
                 /\ UNCHANGED issued
            ELSE /\ LoopOn(n, res, <<Log("error", "Failed")>>)
                 /\ UNCHANGED hasKey
         /\ failures' = failures \cup {[k |-> r.i, message |-> message,
                                        statuses |-> Statuses(res)]}
         /\ UNCHANGED <<editorVars, otherVars, userDoc, isLoadingUserDoc, aistudio, selectedFiles, tokenUsage, localStorage,
                        selectedModel, now, usageAtStart, resetSince>>

----------------------------------------------------------------------------
(* Specifications *)

\* the application after construction: nothing loaded, nothing selected, the key checked
Init ==
    /\ userDoc = <<>>
    /\ isLoadingUserDoc = TRUE
    /\ aistudio \in BOOLEAN
    /\ hasKey \in BOOLEAN
    /\ selectedFiles = <<>>
    /\ results = <<>>
    /\ logs = <<Log("info", "System initialized. Please select API Key and Files.")>>
    /\ isProcessing = FALSE
    /\ tokenUsage = ZeroUsage
    /\ selectedModel = "gemini-2.5-flash-image"
    /\ now = 0
    /\ runs = <<>>
    /\ issued = {}
    /\ failures = {}
    /\ usageAtStart = [images |-> 0, historic_images |-> 0]
    /\ resetSince = FALSE
    /\ localStorage = <<>>
    /\ editor = <<>>
    /\ remote = <<>>
    /\ saves = <<>>
    /\ tick = <<>>
    /\ edits = 0
    /\ lastEdit = <<>>
    /\ configEditor = <<>>
    /\ devices = <<>>

Next ==
    \/ fetchUserDoc
    \/ fetchUserDocFailed
    \/ handlePromptsChange
    \/ handleFileSelect
    \/ handleSelectKey
    \/ changeModel
    \/ handleClear
    \/ handleProcess
    \/ GenerateResolved
    \/ GenerateFailed

Spec == Init /\ [][Next]_vars

TypeOK ==
    /\ Len(userDoc) <= 1
    /\ isProcessing \in BOOLEAN
    /\ hasKey \in BOOLEAN
    /\ selectedModel \in Models
    /\ \A j \in 1..Len(results) :
         results[j].status \in {"pending", "processing", "completed", "failed"}

----------------------------------------------------------------------------
(* Task construction on its own: every document of the pool, loaded, with files selected *)

InitBuild ==
    /\ \E p \in AllPromptLists, b \in BeforeTexts, a \in AfterTexts :
         userDoc = <<[prompts |-> p, prompt_before |-> b, prompt_after |-> a,
                      historic_cost |-> 0, historic_images |-> 0]>>
    /\ isLoadingUserDoc = FALSE
    /\ aistudio = FALSE
    /\ hasKey = TRUE
    /\ selectedFiles \in FileSets
    /\ results = <<>>
    /\ logs = <<Log("info", "User profile loaded.")>>
    /\ isProcessing = FALSE
    /\ tokenUsage = ZeroUsage
    /\ selectedModel = "gemini-2.5-flash-image"
    /\ now = 0
    /\ runs = <<>>
    /\ issued = {}
    /\ failures = {}
    /\ usageAtStart = [images |-> 0, historic_images |-> 0]
    /\ resetSince = FALSE
    /\ localStorage = <<>>
    /\ editor = <<>>
    /\ remote = <<>>
    /\ saves = <<>>
    /\ tick = <<>>
    /\ edits = 0
    /\ lastEdit = <<>>
    /\ configEditor = <<>>
    /\ devices = <<>>

NextBuild ==
    \/ handleProcess
    \/ GenerateResolved
    \/ GenerateFailed

SpecBuild == InitBuild /\ [][NextBuild]_vars

----------------------------------------------------------------------------
(* PromptEditor and its parent's two callbacks.  An action is a handler    *)
(* together with the renders and effects it sets off, up to the point      *)
(* where nothing more is scheduled: effects run in declaration order, and  *)
(* a ref written by one effect is read by the next.  The three refs that   *)
(* mirror items, beforeText and afterText equal the state between renders  *)
(* and are not kept apart.  Time is counted in interval periods.           *)

QuietThreshold == 5     \* timeSinceLastInput >= 5000, checked every 1000 ms

EditNames == {<<"c">>}
EditPrompts == {<<"z">>}

\* the documents the editor is mounted on
EditorDocs ==
    {[prompts |-> <<pA, pOff>>, prompt_before |-> <<>>, prompt_after |-> <<>>,
      historic_cost |-> 0, historic_images |-> 0],
     [prompts |-> <<pB>>, prompt_before |-> <<"B">>, prompt_after |-> <<"A">>,
      historic_cost |-> 0, historic_images |-> 0]}

\* the arguments of onSave and onChange: items.map(...), beforeText, afterText
Snapshot(e) == [prompts |-> e.items, prompt_before |-> e.beforeText,
                prompt_after |-> e.afterText]

\* setUserDoc(prev => prev ? { ...prev, prompts, prompt_before, prompt_after } : null)
WithPrompts(doc, snap) == [doc EXCEPT !.prompts = snap.prompts,
                                      !.prompt_before = snap.prompt_before,
                                      !.prompt_after = snap.prompt_after]

\* effect [promptBefore, promptAfter]: the texts follow the props unless the change is local
TextSyncEffect(e, doc) ==
    IF ~e.isLocalChange
    THEN [e EXCEPT !.beforeText = doc.prompt_before, !.afterText = doc.prompt_after]
    ELSE e

\* effect [prompts]: consume the local-change mark, or fill the items on the first load only
InitEffect(e, doc) ==
    IF e.isLocalChange THEN [e EXCEPT !.isLocalChange = FALSE]
    ELSE IF e.isInitialized THEN e
    ELSE [e EXCEPT !.items = doc.prompts, !.hasChanges = FALSE, !.isInitialized = TRUE]

\* the effects of a render whose props went from document old to document new; the
\* prompts prop is a new array whenever the parent has set the document
PropEffects(e, old, new) ==
    LET textChanged == old.prompt_before # new.prompt_before
                       \/ old.prompt_after # new.prompt_after
        e1 == IF textChanged THEN TextSyncEffect(e, new) ELSE e
    IN InitEffect(e1, new)

\* effect [items, beforeText, afterText, onChange], then the renders that follow it, for as
\* long as the editor's snapshot differs from the one the effect last ran with
RECURSIVE Settle(_, _, _)
Settle(e, seen, doc) ==
    IF Snapshot(e) = seen \/ ~e.isInitialized THEN [editor |-> e, userDoc |-> doc]
    ELSE LET marked == [e EXCEPT !.isLocalChange = TRUE]
             next == WithPrompts(doc, Snapshot(e))
         IN Settle(PropEffects(marked, doc, next), Snapshot(e), next)

\* the first render on document doc at time t, its effects, and what they set off
Mount(doc, t) ==
    LET e0 == [items |-> <<>>, beforeText |-> doc.prompt_before,
               afterText |-> doc.prompt_after, hasChanges |-> FALSE, lastInputTime |-> t,
               isLocalChange |-> FALSE, isInitialized |-> FALSE, draggedIndex |-> <<>>]
        e1 == InitEffect(TextSyncEffect(e0, doc), doc)
        \* the onChange effect of the first render still holds the empty items of that render
        next == WithPrompts(doc, Snapshot(e0))
        e2 == PropEffects([e1 EXCEPT !.isLocalChange = TRUE], doc, next)
    IN Settle(e2, Snapshot(e0), next)

\* recordInput, then the setter of one edit handler, then the renders that follow
RecordInput(e, t) == [e EXCEPT !.lastInputTime = t, !.hasChanges = TRUE]

ReplaceAt(s, index, item) == [s EXCEPT ![index] = item]

\* next.splice(draggedIndex, 1) then next.splice(index, 0, draggedItem)
Splice_Swap(s, draggedIndex, index) ==
    [j \in 1..Len(s) |-> IF j = index THEN s[draggedIndex]
                         ELSE IF j = draggedIndex THEN s[index] ELSE s[j]]

Splice(s, draggedIndex, index) ==
    LET rest == RemoveAt(s, draggedIndex)
    IN SubSeq(rest, 1, index - 1) \o <<s[draggedIndex]>> \o SubSeq(rest, index, Len(rest))

NewPrompt == [name |-> <<>>, prompt |-> <<>>, enabled |-> FALSE,
              skip_beforeafter_prompt |-> FALSE]

\* the bounds of the specification allow one more edit
EditBudget ==
    /\ edits < MaxEdits
    /\ now + QuietThreshold <= MaxClock

\* an edit handler may run: the editor is on screen and no row is being dragged (the
\* pointer is taken until the drop or the end of the drag)
EditEnabled ==
    /\ editor # <<>>
    /\ editor[1].draggedIndex = <<>>
    /\ EditBudget

\* the common course of the edit handlers: the edited state, then the onChange effect
Edited(e) ==
    LET settled == Settle(RecordInput(e, now), Snapshot(editor[1]), userDoc[1])
    IN /\ editor' = <<settled.editor>>
       /\ userDoc' = <<settled.userDoc>>
       /\ edits' = edits + 1
       /\ lastEdit' = <<[snapshot |-> Snapshot(e), inFlight |-> saves # <<>>]>>
       /\ UNCHANGED <<isLoadingUserDoc, hasKey, aistudio, selectedFiles, results, logs,
                      isProcessing, tokenUsage, selectedModel, now, runs, issued, failures,
                      usageAtStart, resetSince, localStorage, remote, saves, tick, otherVars>>

handleNameChange ==
    /\ EditEnabled
    /\ \E index \in 1..Len(editor[1].items), name \in EditNames :
         LET e == editor[1]
         IN Edited([e EXCEPT !.items = ReplaceAt(e.items, index,
                                                 [e.items[index] EXCEPT !.name = name])])

handlePromptChange ==
    /\ EditEnabled
    /\ \E index \in 1..Len(editor[1].items), prompt \in EditPrompts :
         LET e == editor[1]
         IN Edited([e EXCEPT !.items = ReplaceAt(e.items, index,
                                                 [e.items[index] EXCEPT !.prompt = prompt])])

handleBeforeTextChange ==
    /\ EditEnabled
    /\ \E text \in BeforeTexts \ {editor[1].beforeText} :
         Edited([editor[1] EXCEPT !.beforeText = text])

handleAfterTextChange ==
    /\ EditEnabled
    /\ \E text \in AfterTexts \ {editor[1].afterText} :
         Edited([editor[1] EXCEPT !.afterText = text])

handleSelectionChange ==
    /\ EditEnabled
    /\ \E index \in 1..Len(editor[1].items) :
         LET e == editor[1]
         IN Edited([e EXCEPT !.items =
                       ReplaceAt(e.items, index,
                                 [e.items[index] EXCEPT !.enabled = ~e.items[index].enabled])])

handleSkipBeforeAfterChange ==
    /\ EditEnabled
    /\ \E index \in 1..Len(editor[1].items) :
         LET e == editor[1]
             item == e.items[index]
         IN Edited([e EXCEPT !.items =
                       ReplaceAt(e.items, index,
                                 [item EXCEPT !.skip_beforeafter_prompt =
                                                 ~item.skip_beforeafter_prompt])])

handleAddPrompt ==
    /\ EditEnabled
    /\ Edited([editor[1] EXCEPT !.items = Append(editor[1].items, NewPrompt)])

handleDeletePrompt ==
    /\ EditEnabled
    /\ \E index \in 1..Len(editor[1].items) :
         Edited([editor[1] EXCEPT !.items = RemoveAt(editor[1].items, index)])

\* onDragStart of a row
handleDragStart ==
    /\ EditEnabled
    /\ \E index \in 1..Len(editor[1].items) :
         editor' = <<[editor[1] EXCEPT !.draggedIndex = <<index>>]>>
    /\ UNCHANGED <<userDoc, isLoadingUserDoc, hasKey, aistudio, selectedFiles, results, logs,
                   isProcessing, tokenUsage, selectedModel, now, runs, issued, failures,
                   usageAtStart, resetSince, localStorage, remote, saves, tick, edits,
                   lastEdit, otherVars>>

\* onDragEnd: the drag is over, wherever the row was released
handleDragEnd ==
    /\ editor # <<>>
    /\ editor[1].draggedIndex # <<>>
    /\ editor' = <<[editor[1] EXCEPT !.draggedIndex = <<>>]>>
    /\ UNCHANGED <<userDoc, isLoadingUserDoc, hasKey, aistudio, selectedFiles, results, logs,
                   isProcessing, tokenUsage, selectedModel, now, runs, issued, failures,
                   usageAtStart, resetSince, localStorage, remote, saves, tick, edits,
                   lastEdit, otherVars>>

\* onDrop on a row: on the dragged row itself the handler returns before recordInput; on
\* another row it records the input and moves the dragged item
handleDrop ==
    /\ editor # <<>>
    /\ editor[1].draggedIndex # <<>>
    /\ \E index \in 1..Len(editor[1].items) :
         LET e == editor[1]
             draggedIndex == e.draggedIndex[1]
         IN IF draggedIndex = index
            THEN /\ editor' = <<[e EXCEPT !.draggedIndex = <<>>]>>
                 /\ UNCHANGED <<userDoc, isLoadingUserDoc, hasKey, aistudio, selectedFiles,
                                results, logs, isProcessing, tokenUsage, selectedModel, now,
                                runs, issued, failures, usageAtStart, resetSince,
                                localStorage, remote, saves, tick, edits, lastEdit,
                                otherVars>>
            ELSE /\ EditBudget
                 /\ Edited([e EXCEPT !.items = Splice(e.items, draggedIndex, index),
                                     !.draggedIndex = <<>>])

\* the interval callback decides to call triggerSave
AutoSaveDue(e, t) ==
    /\ Len(e.items) # 0
    /\ e.hasChanges
    /\ t - e.lastInputTime >= QuietThreshold

\* one period of the autosave interval passes and its callback runs.  The clock is followed
\* up to MaxClock: no edit is stamped later than MaxClock - QuietThreshold, so from there on
\* every callback sees what the one at MaxClock sees
autoSaveTick ==
    /\ editor # <<>>
    /\ now' = (IF now < MaxClock THEN now + 1 ELSE now)
    /\ LET e == editor[1]
           due == AutoSaveDue(e, now')
       IN /\ tick' = <<[at |-> now', hasChanges |-> e.hasChanges,
                        timeSinceLastInput |-> now' - e.lastInputTime,
                        items |-> Len(e.items), saved |-> due]>>
          /\ IF due
             \* triggerSave: onSave(...) starts handleSavePrompts, then setHasChanges(false)
             THEN /\ saves' = Append(saves, Snapshot(e))
                  /\ editor' = <<[e EXCEPT !.hasChanges = FALSE]>>
             ELSE UNCHANGED <<saves, editor>>
    /\ UNCHANGED <<userDoc, isLoadingUserDoc, hasKey, aistudio, selectedFiles, results, logs,
                   isProcessing, tokenUsage, selectedModel, runs, issued, failures,
                   usageAtStart, resetSince, localStorage, remote, edits, lastEdit, otherVars>>

\* the remote write of the oldest save resolves: the parent sets the saved values back
handleSavePromptsResolved ==
    /\ saves # <<>>
    /\ LET saved == Head(saves)
           next == WithPrompts(userDoc[1], saved)
           settled == Settle(PropEffects(editor[1], userDoc[1], next), Snapshot(editor[1]),
                             next)
       IN /\ remote' = <<WithPrompts(remote[1], saved)>>
          /\ userDoc' = <<settled.userDoc>>
          /\ editor' = <<settled.editor>>
    /\ saves' = Tail(saves)
    /\ logs' = <<Log("success", "Prompts saved to cloud.")>>
    /\ UNCHANGED <<isLoadingUserDoc, hasKey, aistudio, selectedFiles, results, isProcessing,
                   tokenUsage, selectedModel, now, runs, issued, failures, usageAtStart,
                   resetSince, localStorage, tick, edits, lastEdit, otherVars>>

\* the remote write of the oldest save is rejected: caught and logged
handleSavePromptsFailed ==
    /\ saves # <<>>
    /\ saves' = Tail(saves)
    /\ logs' = <<Log("error", "Failed to save prompts.")>>
    /\ UNCHANGED <<userDoc, isLoadingUserDoc, hasKey, aistudio, selectedFiles, results,
                   isProcessing, tokenUsage, selectedModel, now, runs, issued, failures,
                   usageAtStart, resetSince, localStorage, editor, remote, tick, edits, lastEdit, otherVars>>

\* the user document has loaded and the editor has mounted on it
InitEditor ==
    /\ \E doc \in EditorDocs :
         LET mounted == Mount(doc, 0)
         IN /\ userDoc = <<mounted.userDoc>>
            /\ editor = <<mounted.editor>>
            /\ remote = <<doc>>
    /\ isLoadingUserDoc = FALSE
    /\ aistudio = FALSE
    /\ hasKey = TRUE
    /\ selectedFiles = <<>>
    /\ results = <<>>
    /\ logs = <<Log("info", "User profile loaded.")>>
    /\ isProcessing = FALSE
    /\ tokenUsage = ZeroUsage
    /\ selectedModel = "gemini-2.5-flash-image"
    /\ now = 0
    /\ runs = <<>>
    /\ issued = {}
    /\ failures = {}
    /\ usageAtStart = [images |-> 0, historic_images |-> 0]
    /\ resetSince = FALSE
    /\ localStorage = <<>>
    /\ saves = <<>>
    /\ tick = <<>>
    /\ edits = 0
    /\ lastEdit = <<>>
    /\ configEditor = <<>>
    /\ devices = <<>>

EditStep ==
    \/ handleNameChange
    \/ handlePromptChange
    \/ handleBeforeTextChange
    \/ handleAfterTextChange
    \/ handleSelectionChange
    \/ handleSkipBeforeAfterChange
    \/ handleAddPrompt
    \/ handleDeletePrompt
    \/ handleDragStart
    \/ handleDragEnd
    \/ handleDrop

NextEditor ==
    \/ EditStep
    \/ autoSaveTick
    \/ handleSavePromptsResolved
    \/ handleSavePromptsFailed

SpecEditor == InitEditor /\ [][NextEditor]_vars

\* the same editor when every remote write succeeds, with the interval running and every
\* write answered
NextEditorLive ==
    \/ EditStep
    \/ autoSaveTick
    \/ handleSavePromptsResolved

SpecEditorLive ==
    InitEditor /\ [][NextEditorLive]_vars /\ WF_vars(autoSaveTick)
    /\ WF_vars(handleSavePromptsResolved)

----------------------------------------------------------------------------
(* The ledger on its own: calls added, session resets, the merge with the   *)
(* remote totals, and the page reloaded from localStorage                  *)

LedgerUsages == Usages \cup {[input |-> 0, output_text |-> 0, output_image |-> 3]}

\* what an earlier session may have left in localStorage: nothing, a text that does not
\* parse, an entry that lacks fields, a full entry
StoredEntries ==
    {<<>>,
     <<Unparsable>>,
     <<[input |-> 1, images |-> 1, historic_cost |-> 254]>>,
     <<[total |-> 0, input |-> 0, output_image |-> 0, output_text |-> 0, images |-> 0,
        total_cost |-> 0, historic_cost |-> 39000, historic_images |-> 1]>>}

\* setTokenUsage(prev => { next = fromJSON(prev.toJSON()); next.addItem(...); return next })
\* after a successful generation call, and the persist effect
addUsage ==
    /\ tokenUsage.historic_images < MaxImages
    /\ \E usage \in LedgerUsages :
         tokenUsage' = AddItem(FromJSON(ToJSON(tokenUsage)), usage.input, usage.output_text,
                               usage.output_image, selectedModel)
    /\ localStorage' = SaveToLocalStorage(tokenUsage')
    /\ logs' = <<Log("success", "Success")>>
    /\ UNCHANGED <<editorVars, otherVars, userDoc, isLoadingUserDoc, hasKey, aistudio, selectedFiles,
                   results, isProcessing, selectedModel, now, runs, issued, failures,
                   usageAtStart, resetSince>>

\* the page is loaded again: every useState initialiser runs, the ledger and the model are
\* read back from localStorage, the key is checked, and the persist effect of the first
\* render rewrites the entry
reload ==
    /\ ~isLoadingUserDoc
    /\ tokenUsage' = FromLocalStorage(localStorage)
    /\ localStorage' = SaveToLocalStorage(tokenUsage')
    /\ userDoc' = <<>>
    /\ isLoadingUserDoc' = TRUE
    /\ hasKey' \in (IF aistudio THEN BOOLEAN ELSE {hasKey})
    /\ selectedFiles' = <<>>
    /\ results' = <<>>
    /\ logs' = <<Log("info", "System initialized. Please select API Key and Files.")>>
    /\ isProcessing' = FALSE
    /\ runs' = <<>>
    /\ issued' = {}
    /\ failures' = {}
    /\ UNCHANGED <<editorVars, otherVars, aistudio, selectedModel, now, usageAtStart, resetSince>>

\* the ledger as the useState initialiser reads it from the entry an earlier session left
InitLedger ==
    /\ localStorage \in StoredEntries
    /\ tokenUsage = FromLocalStorage(localStorage)
    /\ selectedModel \in Models
    /\ userDoc = <<>>
    /\ isLoadingUserDoc = TRUE
    /\ aistudio = FALSE
    /\ hasKey = TRUE
    /\ selectedFiles = <<>>
    /\ results = <<>>
    /\ logs = <<Log("info", "System initialized. Please select API Key and Files.")>>
    /\ isProcessing = FALSE
    /\ now = 0
    /\ runs = <<>>
    /\ issued = {}
    /\ failures = {}
    /\ usageAtStart = [images |-> 0, historic_images |-> 0]
    /\ resetSince = FALSE
    /\ editor = <<>>
    /\ remote = <<>>
    /\ saves = <<>>
    /\ tick = <<>>
    /\ edits = 0
    /\ lastEdit = <<>>
    /\ configEditor = <<>>
    /\ devices = <<>>

NextLedger ==
    \/ addUsage
    \/ handleClear
    \/ changeModel
    \/ fetchUserDoc
    \/ reload

SpecLedger == InitLedger /\ [][NextLedger]_vars

----------------------------------------------------------------------------
(* Properties *)

Terminal == {"completed", "failed"}

IsCredentialFailure(f) == Includes(f.message, NotFoundText)

Processing(res) == {j \in 1..Len(res) : res[j].status = "processing"}

\* C1: once the call of task k fails with a credential error, task k is failed, no call
\* is issued for a later task, the later tasks stay pending, the earlier ones keep their
\* terminal status, and the batch is over.
C1_CredentialErrorStopsBatch ==
    \A f \in failures :
        IsCredentialFailure(f) =>
            /\ runs = <<>>
            /\ \A j \in issued : j <= f.k
            /\ Statuses(results) = f.statuses
            /\ f.statuses[f.k] = "failed"
            /\ \A j \in 1..Len(results) :
                 /\ j > f.k => results[j].status = "pending"
                 /\ j < f.k => results[j].status \in Terminal

\* scenario B: the second of three tasks failed with a credential error
C1_Witness ==
    /\ Len(results) = 3
    /\ ~isProcessing
    /\ \E f \in failures : IsCredentialFailure(f) /\ f.k = 2
    /\ results[1].status = "completed"
    /\ results[3].status = "pending"

CredentialStopStep == \E f \in failures' \ failures : IsCredentialFailure(f)

\* C2 as stated: every batch stop on a credential error sets hasKey to false
C2_Original == [][CredentialStopStep => hasKey' = FALSE]_vars

\* C2: a batch stop on a credential error ends the batch and logs the key error; hasKey
\* becomes false when window.aistudio is present and is left as it was otherwise.
C2_CredentialErrorRaisesFlag ==
    [][CredentialStopStep =>
          /\ hasKey' = (IF aistudio THEN FALSE ELSE hasKey)
          /\ ~isProcessing'
          /\ \E e \in 1..Len(logs') :
               logs'[e] = Log("error", "API Key might be invalid or expired.")]_vars

C2_Witness ==
    /\ aistudio
    /\ ~hasKey
    /\ ~isProcessing
    /\ \E f \in failures : IsCredentialFailure(f)

\* C3: a call that fails for another reason leaves its task failed with the message on
\* that task and on no other, the call of the next task is issued, and a batch without a
\* credential error ends with every task completed or failed.
C3_OtherErrorContinues ==
    /\ \A f \in failures :
         ~IsCredentialFailure(f) =>
            /\ results[f.k].status = "failed"
            /\ results[f.k].error = f.message
            /\ f.k < Len(results) => (f.k + 1) \in issued
    /\ \A j \in 1..Len(results) :
         results[j].error # Undefined =>
            \E f \in failures : f.k = j /\ f.message = results[j].error
    /\ (results # <<>> /\ ~isProcessing /\ \A f \in failures : ~IsCredentialFailure(f))
         => \A j \in 1..Len(results) : results[j].status \in Terminal

C3_Witness ==
    /\ Len(results) = 3
    /\ ~isProcessing
    /\ \E f \in failures : ~IsCredentialFailure(f) /\ f.k = 1
    /\ results[1].status = "failed"
    /\ results[2].status = "completed"
    /\ results[3].status = "completed"
    /\ results[2].error = Undefined

\* C4: at most one handleProcess run, hence at most one generation call, is outstanding;
\* at most one task is processing; the outstanding call is that of the processing task,
\* every earlier task is completed or failed, and calls were issued in list order.
C4_OneAtATime ==
    /\ Len(runs) <= 1
    /\ Cardinality(Processing(results)) <= 1
    /\ \A n \in 1..Len(runs) :
         /\ Processing(results) = {runs[n].i}
         /\ issued = 1..runs[n].i
         /\ \A j \in 1..(runs[n].i - 1) : results[j].status \in Terminal
    /\ runs = <<>> => Processing(results) = {}

C4_Witness ==
    /\ Len(runs) = 1
    /\ runs[1].i = 3
    /\ results[3].status = "processing"
    /\ results[1].status = "failed"
    /\ results[2].status = "completed"

StatusSteps == {<<"pending", "processing">>, <<"processing", "completed">>,
                <<"processing", "failed">>}

\* C5: while the list holds the tasks of one batch, each step leaves every task in place
\* and either keeps its status or moves it pending -> processing, processing -> completed
\* or processing -> failed.
C5_StatusMonotonic ==
    [][(results # <<>> /\ results' # <<>> /\ now' = now) =>
          /\ Len(results') = Len(results)
          /\ \A j \in 1..Len(results) :
               /\ results'[j].id = results[j].id
               /\ \/ results'[j].status = results[j].status
                  \/ <<results[j].status, results'[j].status>> \in StatusSteps]_vars

\* a second batch, with a completed, a failed and a processing task
C5_Witness ==
    /\ Len(results) = 3
    /\ results[1].status = "completed"
    /\ results[2].status = "failed"
    /\ results[3].status = "processing"
    /\ now = 2

\* the items of a run's prompt list that are enabled
EnabledAt(r) == {j \in 1..Len(r.userDoc.prompts) : r.userDoc.prompts[j].enabled}

\* the items that are enabled and have a name with a character other than white space
NamedAt(r) ==
    {j \in EnabledAt(r) :
        \E c \in 1..Len(r.userDoc.prompts[j].name) :
            r.userDoc.prompts[j].name[c] \notin WhiteSpace}

\* the task built from item j, when the tasks come from the items idx in list order
TaskOf(r, idx, j) == r.tasks[Cardinality({j2 \in idx : j2 <= j})]

\* the task list has one task per item of idx, in the order of the prompt list
OneTaskPer(r, idx) ==
    /\ Len(r.tasks) = Cardinality(idx)
    /\ \A j \in idx :
         /\ TaskOf(r, idx, j).promptName = r.userDoc.prompts[j].name
         /\ Includes(TaskOf(r, idx, j).promptText, r.userDoc.prompts[j].prompt)
         /\ TaskOf(r, idx, j).id[1] = r.userDoc.prompts[j].name

\* C6 as stated: one task per enabled item, whatever its name
C6_Original == \A n \in 1..Len(runs) : OneTaskPer(runs[n], EnabledAt(runs[n]))

\* C6: the task list of a batch has exactly one task per item that is enabled and whose
\* name is not blank after trimming, in the order of the prompt list.
C6_OneTaskPerNamedEnabledItem == \A n \in 1..Len(runs) : OneTaskPer(runs[n], NamedAt(runs[n]))

\* a batch from a list with an enabled blank-named item ahead of a named one
C6_Witness ==
    /\ Len(runs) = 1
    /\ runs[1].userDoc.prompts = <<pBlank, pDup>>
    /\ Len(runs[1].tasks) = 1
    /\ runs[1].tasks[1].promptName = <<"a">>

\* C7: the task of an item with skip_beforeafter_prompt set carries the item's prompt alone
C7_SkipOmitsSurroundingText ==
    \A n \in 1..Len(runs) :
        \A j \in NamedAt(runs[n]) :
            runs[n].userDoc.prompts[j].skip_beforeafter_prompt =>
                TaskOf(runs[n], NamedAt(runs[n]), j).promptText = runs[n].userDoc.prompts[j].prompt

RECURSIVE JoinLines(_)
JoinLines(parts) ==
    IF parts = <<>> THEN <<>>
    ELSE IF Len(parts) = 1 THEN parts[1]
    ELSE parts[1] \o <<"\n">> \o JoinLines(Tail(parts))

NonEmptyMembers(parts) == SelectSeq(parts, LAMBDA x : x # <<>>)

\* C8: the task of an item without the flag carries the non-empty members of
\* (prompt_before, prompt, prompt_after), in that order, one newline between neighbours
C8_NonEmptySegmentsJoined ==
    \A n \in 1..Len(runs) :
        \A j \in NamedAt(runs[n]) :
            ~runs[n].userDoc.prompts[j].skip_beforeafter_prompt =>
                TaskOf(runs[n], NamedAt(runs[n]), j).promptText =
                    JoinLines(NonEmptyMembers(<<runs[n].userDoc.prompt_before,
                                                runs[n].userDoc.prompts[j].prompt,
                                                runs[n].userDoc.prompt_after>>))

NoEnabledPrompt ==
    userDoc = <<>> \/ \A j \in 1..Len(userDoc[1].prompts) : ~userDoc[1].prompts[j].enabled

\* no item that is enabled and has a name with a character other than white space
NoNamedEnabledPrompt ==
    userDoc = <<>> \/ \A j \in 1..Len(userDoc[1].prompts) :
                         \/ ~userDoc[1].prompts[j].enabled
                         \/ \A c \in 1..Len(userDoc[1].prompts[j].name) :
                              userDoc[1].prompts[j].name[c] \in WhiteSpace

PromptErrors == {"Error: No prompts configured.", "Error: No prompts selected."}

\* C9: handleProcess called with no enabled prompt, no selected file or no key logs one
\* error, that of a cause that holds (for the prompt errors: no enabled prompt that has a
\* name), and changes nothing else: no task, no call, no ledger change.
C9_PreconditionsBlockBatch ==
    [][((NoEnabledPrompt \/ selectedFiles = <<>> \/ ~hasKey) /\ handleProcess) =>
          /\ Len(logs') = 1
          /\ logs'[1].type = "error"
          /\ \/ logs'[1].message \in PromptErrors /\ NoNamedEnabledPrompt
             \/ logs'[1].message = "Error: No files selected." /\ selectedFiles = <<>>
             \/ logs'[1].message = "Error: API Key not configured." /\ ~hasKey
          /\ UNCHANGED <<results, isProcessing, tokenUsage, runs, issued, userDoc,
                         selectedFiles, hasKey>>]_vars

C9_Witness ==
    /\ logs = <<Log("error", "Error: API Key not configured.")>>
    /\ ~hasKey
    /\ selectedFiles # <<>>
    /\ ~NoEnabledPrompt
    /\ results = <<>>
    /\ ~isProcessing

\* C10: while the list holds the tasks of a batch, historic_images has grown since the
\* batch started by exactly the number of its completed tasks, and so has images unless
\* the session was reset meanwhile.
C10_UsagePerCompletedTask ==
    results # <<>> =>
        /\ tokenUsage.historic_images = usageAtStart.historic_images + Completed(results)
        /\ ~resetSince => tokenUsage.images = usageAtStart.images + Completed(results)

\* two tasks completed and one failed, on top of an earlier session
C10_Witness ==
    /\ Len(results) = 3
    /\ ~isProcessing
    /\ ~resetSince
    /\ Completed(results) = 2
    /\ \E j \in 1..3 : results[j].status = "failed"
    /\ usageAtStart.images = 2
    /\ tokenUsage.images = 4

----------------------------------------------------------------------------
(* PromptEditor: inbound updates, autosave, and the snapshot the batch reads *)

EditorTexts(e) == <<e.items, e.beforeText, e.afterText>>

RemotePrompts == [prompts |-> remote[1].prompts, prompt_before |-> remote[1].prompt_before,
                  prompt_after |-> remote[1].prompt_after]

DocPrompts == [prompts |-> userDoc[1].prompts, prompt_before |-> userDoc[1].prompt_before,
               prompt_after |-> userDoc[1].prompt_after]

\* C11: while the editor has unflushed changes (hasChanges true), the echo that
\* handleSavePrompts writes back after the remote write resolves changes none of the
\* editor's items, beforeText and afterText.
C11_DirtyEditorIgnoresEcho ==
    [][(editor[1].hasChanges /\ handleSavePromptsResolved)
       => EditorTexts(editor'[1]) = EditorTexts(editor[1])]_vars

\* C12: when the remote write of a flush fails, hasChanges is true after the failure (so
\* that a later autosave tick flushes again).
C12_FailedFlushStaysDirty == [][handleSavePromptsFailed => editor'[1].hasChanges]_vars

\* C13: at each autosave tick a flush is invoked if and only if the dirty flag is set and
\* the time since the last edit is at least the quiet threshold, in every editor state.
C13_FlushIffDirtyAndQuiet ==
    tick # <<>> =>
        (tick[1].saved <=> (tick[1].hasChanges
                            /\ tick[1].timeSinceLastInput >= QuietThreshold))

\* C14: the snapshot handleProcess reads (userDoc's prompts, prompt_before, prompt_after)
\* equals the editor's current items and texts, whatever edits were made and wherever a
\* flush stands.
C14_DocIsEditorSnapshot == editor # <<>> => DocPrompts = Snapshot(editor[1])

InSync == ~editor[1].hasChanges /\ saves = <<>> /\ RemotePrompts = Snapshot(editor[1])

\* C15: from every state with unflushed changes, once the user stops editing and remote
\* writes succeed, eventually the editor has flushed, the remote prompts and texts equal
\* the editor's current snapshot, and the dirty flag is false.
C15_EventuallyFlushed == editor[1].hasChanges ~> InSync

----------------------------------------------------------------------------
(* TokenUsage: addItem, reset, the snapshot round trip, the remote merge *)

SessionFields == {"total", "input", "output_image", "output_text", "images", "total_cost"}

\* the cost of one call under the price table of its model
CallCost(u, model) ==
    u.input * PRICING[model].input + u.output_text * PRICING[model].output_text
    + u.output_image * PRICING[model].output_image + PRICING[model].output_imageflat

\* C16: addItem(input, outputText, outputImage, model) adds each argument to its session
\* counter and their sum to total, increments images and historic_images by 1, and adds
\* one and the same call cost to both total_cost and historic_cost.
C16_AddItemAccounting ==
    [][addUsage =>
         \E u \in LedgerUsages :
            tokenUsage' =
                [total |-> tokenUsage.total + u.input + u.output_text + u.output_image,
                 input |-> tokenUsage.input + u.input,
                 output_text |-> tokenUsage.output_text + u.output_text,
                 output_image |-> tokenUsage.output_image + u.output_image,
                 images |-> tokenUsage.images + 1,
                 historic_images |-> tokenUsage.historic_images + 1,
                 total_cost |-> tokenUsage.total_cost + CallCost(u, selectedModel),
                 historic_cost |-> tokenUsage.historic_cost + CallCost(u, selectedModel)]]_vars

\* a call priced per token (2 + 12 + 240) added to a ledger that held a lifetime of one
\* flat-rate image
C16_Witness ==
    /\ logs = <<Log("success", "Success")>>
    /\ tokenUsage.total_cost = 254
    /\ tokenUsage.historic_cost = 39254
    /\ tokenUsage.images = 1
    /\ tokenUsage.historic_images = 2

C18_SnapshotRoundTrip ==
    /\ FromJSON(ToJSON(tokenUsage)) = tokenUsage
    /\ DOMAIN FromJSON(ToJSON(tokenUsage)) = UsageFields
    /\ \A f \in UsageFields :
         FromLocalStorage(localStorage)[f] =
             IF localStorage # <<>> /\ f \in DOMAIN localStorage[1] THEN localStorage[1][f]
             ELSE 0

\* the ledger read from an entry that lacks five of the eight fields
C18_Witness ==
    /\ localStorage # <<>>
    /\ DOMAIN localStorage[1] = {"input", "images", "historic_cost"}
    /\ tokenUsage.input = 1
    /\ tokenUsage.historic_cost = 254
    /\ tokenUsage.historic_images = 0
    /\ tokenUsage.total = 0

\* C19: when the remote lifetime pair is loaded, each local lifetime field becomes the
\* larger of its local and remote value (replaced only when the remote one is strictly
\* greater, never their sum), and no session field changes.
C19_MergeKeepsLarger ==
    [][fetchUserDoc =>
         LET doc == userDoc'[1]
         IN /\ tokenUsage'.historic_cost =
                  (IF doc.historic_cost > tokenUsage.historic_cost THEN doc.historic_cost
                   ELSE tokenUsage.historic_cost)
            /\ tokenUsage'.historic_images =
                  (IF doc.historic_images > tokenUsage.historic_images
                   THEN doc.historic_images ELSE tokenUsage.historic_images)
            /\ \A f \in SessionFields : tokenUsage'[f] = tokenUsage[f]]_vars

\* a local lifetime of (254, 1) met the remote pair (39000, 1): the cost was replaced, the
\* equal image count was kept, the session cost of 254 is still there
C19_Witness ==
    /\ logs = <<Log("info", "User profile loaded.")>>
    /\ userDoc[1].historic_cost = 39000
    /\ userDoc[1].historic_images = 1
    /\ tokenUsage.historic_cost = 39000
    /\ tokenUsage.historic_images = 1
    /\ tokenUsage.total_cost = 254

\* C20: across addItem, Clear, model switch, remote merge, persist and rehydrate, the
\* local historic_cost and historic_images never decrease.
C20_LifetimeNeverDecreases ==
    [][/\ tokenUsage'.historic_cost >= tokenUsage.historic_cost
       /\ tokenUsage'.historic_images >= tokenUsage.historic_images]_vars

\* a page just loaded again after two calls and a session reset
C20_Witness ==
    /\ isLoadingUserDoc
    /\ logs = <<Log("info", "System initialized. Please select API Key and Files.")>>
    /\ tokenUsage.historic_images = 2
    /\ tokenUsage.historic_cost = 78000
    /\ tokenUsage.images = 0

\* C21: under gemini-2.5-flash-image the breakdown of a session of n calls (images counts
\* them) has outputCost = n * 0.039 dollars and inputCost = 0, whatever tokens were reported
C21_FlashFlatRate ==
    selectedModel = "gemini-2.5-flash-image" =>
        /\ GetCostBreakdown(tokenUsage, selectedModel).outputCost = tokenUsage.images * 39000
        /\ GetCostBreakdown(tokenUsage, selectedModel).inputCost = 0

C21_Witness ==
    /\ selectedModel = "gemini-2.5-flash-image"
    /\ tokenUsage.images = 2
    /\ tokenUsage.input > 0
    /\ tokenUsage.output_image > 2
    /\ tokenUsage.total_cost = 78000
    /\ GetCostBreakdown(tokenUsage, selectedModel).outputCost = 78000

\* C22: the ledger survives reloads: after every mutation the localStorage snapshot is the
\* in-memory ledger, a reload rehydrates a ledger with the same eight fields, and an absent
\* or unparsable snapshot rehydrates to the all-zero ledger (a value, not an exception).
C22_LedgerSurvivesReload ==
    /\ [](FromLocalStorage(localStorage) = tokenUsage /\ DOMAIN tokenUsage = UsageFields)
    /\ []((localStorage = <<>> \/ JSONParse(localStorage[1]).threw) => tokenUsage = ZeroUsage)
    /\ [][/\ tokenUsage' # tokenUsage => localStorage' = <<ToJSON(tokenUsage')>>
          /\ reload => tokenUsage' = tokenUsage]_vars

\* a page loaded again after one call under the pro model: the session came back
C22_Witness ==
    /\ isLoadingUserDoc
    /\ logs = <<Log("info", "System initialized. Please select API Key and Files.")>>
    /\ tokenUsage.images = 1
    /\ tokenUsage.total_cost = 254
    /\ tokenUsage.historic_images = 1
    /\ localStorage = <<ToJSON(tokenUsage)>>

----------------------------------------------------------------------------
(* ConfigEditor and the config state of the App that renders it *)

\* JavaScript values as JSON.parse returns them
JsonNull == [type |-> "null"]
JsUndefined == [type |-> "undefined"]
Str(s) == [type |-> "string", chars |-> s]
Obj(o) == [type |-> "object", value |-> o]

\* JSON.stringify(config, null, 2)
JSONStringify(value, indent) == [indent |-> indent, value |-> value]

\* the operand of `!`: null, undefined and the empty string are falsy, every object is truthy
Truthy(v) == v.type = "object" \/ (v.type = "string" /\ v.chars # <<>>)

\* parsed.key: a TypeError on null, undefined on a value without that property
Member(v, key) ==
    IF v.type = "null" THEN [threw |-> TRUE, value |-> JsUndefined]
    ELSE IF v.type = "object" /\ key \in DOMAIN v.value
         THEN [threw |-> FALSE, value |-> v.value[key]]
         ELSE [threw |-> FALSE, value |-> JsUndefined]

ConfigKeys == {"prompts", "combos", "input_file_pattern"}

SomePrompts == {Obj([hero |-> Str(<<"x">>)]), Obj([hero |-> Str(<<"y">>)])}
SomePatterns == {<<"p">>, <<"q">>}
SomeCombos == Obj([all |-> Str(<<"hero">>)])

AppConfig(prompts, pattern) ==
    Obj([prompts |-> prompts, combos |-> SomeCombos, input_file_pattern |-> Str(pattern)])

DEFAULT_CONFIG == AppConfig(Obj([hero |-> Str(<<"x">>)]), <<"p">>)

\* the object `o` without the properties outside `keys`
Restrict(o, keys) == Obj([k \in keys |-> o.value[k]])

\* what the user may leave in the textarea: a text that does not parse, null, a string,
\* objects with every subset of the three keys, objects whose keys are all there with a
\* falsy value, and valid configurations
ConfigTexts ==
    {Unparsable}
    \cup {JSONStringify(v, 0) :
            v \in {JsonNull, Str(<<"x">>),
                   Obj([prompts |-> JsonNull, combos |-> SomeCombos,
                        input_file_pattern |-> Str(<<"p">>)]),
                   AppConfig(Obj([hero |-> Str(<<"x">>)]), <<>>)}
                  \cup {Restrict(DEFAULT_CONFIG, keys) : keys \in SUBSET ConfigKeys}
                  \cup {AppConfig(p, f) : p \in SomePrompts, f \in SomePatterns}}

MissingKeys == "Missing required config keys (prompts, combos, input_file_pattern)"

\* the try block of handleSave: the error to show, or the argument of onSave
TryApply_NoValidation(jsonText) ==
    LET parsed == JSONParse(jsonText)
    IN IF parsed.threw THEN [error |-> <<"SyntaxError">>, onSave |-> <<>>]
       ELSE IF Member(parsed.value, "prompts").threw
            THEN [error |-> <<"TypeError">>, onSave |-> <<>>]
            ELSE [error |-> <<>>, onSave |-> <<parsed.value>>]

TryApply(jsonText) ==
    LET parsed == JSONParse(jsonText)
    IN IF parsed.threw THEN [error |-> <<"SyntaxError">>, onSave |-> <<>>]
       ELSE IF Member(parsed.value, "prompts").threw
            THEN [error |-> <<"TypeError">>, onSave |-> <<>>]
            ELSE IF \E key \in ConfigKeys : ~Truthy(Member(parsed.value, key).value)
                 THEN [error |-> <<MissingKeys>>, onSave |-> <<>>]
                 ELSE [error |-> <<>>, onSave |-> <<parsed.value>>]

\* the textarea's onChange
setJsonText ==
    /\ configEditor # <<>>
    /\ \E text \in ConfigTexts : configEditor' = <<[configEditor[1] EXCEPT !.jsonText = text]>>
    /\ UNCHANGED <<userDoc, isLoadingUserDoc, hasKey, aistudio, selectedFiles, results, logs,
                   isProcessing, tokenUsage, selectedModel, now, runs, issued, failures,
                   usageAtStart, resetSince, localStorage, editorVars, devices>>

\* Apply: on success the App's onSave sets config and logs, and the effect on [config]
\* rewrites the textarea with the new config
handleSave ==
    /\ configEditor # <<>>
    /\ LET c == configEditor[1]
           outcome == TryApply(c.jsonText)
       IN IF outcome.onSave = <<>>
          THEN /\ configEditor' = <<[c EXCEPT !.error = outcome.error, !.lastOnSave = <<>>]>>
               /\ logs' = logs
          ELSE /\ configEditor' = <<[config |-> outcome.onSave[1],
                                      jsonText |-> JSONStringify(outcome.onSave[1], 2),
                                      error |-> <<>>,
                                      lastOnSave |-> outcome.onSave]>>
               /\ logs' = <<Log("success", "Configuration updated.")>>
    /\ UNCHANGED <<userDoc, isLoadingUserDoc, hasKey, aistudio, selectedFiles, results,
                   isProcessing, tokenUsage, selectedModel, now, runs, issued, failures,
                   usageAtStart, resetSince, localStorage, editorVars, devices>>

handleReset ==
    /\ configEditor # <<>>
    /\ configEditor' = <<[configEditor[1] EXCEPT
                             !.jsonText = JSONStringify(configEditor[1].config, 2),
                             !.error = <<>>]>>
    /\ UNCHANGED <<userDoc, isLoadingUserDoc, hasKey, aistudio, selectedFiles, results, logs,
                   isProcessing, tokenUsage, selectedModel, now, runs, issued, failures,
                   usageAtStart, resetSince, localStorage, editorVars, devices>>

\* the App holds DEFAULT_CONFIG; the editor is mounted and its effect has filled the textarea
InitConfig ==
    /\ configEditor = <<[config |-> DEFAULT_CONFIG,
                         jsonText |-> JSONStringify(DEFAULT_CONFIG, 2),
                         error |-> <<>>,
                         lastOnSave |-> <<>>]>>
    /\ userDoc = <<>>
    /\ isLoadingUserDoc = TRUE
    /\ aistudio = FALSE
    /\ hasKey = FALSE
    /\ selectedFiles = <<>>
    /\ results = <<>>
    /\ logs = <<Log("info", "System initialized. Please select API Key and Files.")>>
    /\ isProcessing = FALSE
    /\ tokenUsage = ZeroUsage
    /\ selectedModel = "gemini-2.5-flash-image"
    /\ now = 0
    /\ runs = <<>>
    /\ issued = {}
    /\ failures = {}
    /\ usageAtStart = [images |-> 0, historic_images |-> 0]
    /\ resetSince = FALSE
    /\ localStorage = <<>>
    /\ editor = <<>>
    /\ remote = <<>>
    /\ saves = <<>>
    /\ tick = <<>>
    /\ edits = 0
    /\ lastEdit = <<>>
    /\ devices = <<>>

NextConfig ==
    \/ setJsonText
    \/ handleSave
    \/ handleReset

SpecConfig == InitConfig /\ [][NextConfig]_vars

\* the parsed text is an object that has the three keys
HasConfigKeys(parsed) ==
    /\ ~parsed.threw
    /\ parsed.value.type = "object"
    /\ ConfigKeys \subseteq DOMAIN parsed.value.value

\* C23: Apply on a text that does not parse, or parses to a value lacking prompts, combos
\* or input_file_pattern, shows an error and does not call onSave; onSave is called only
\* with the parsed configuration, which has all three keys.
C23_ApplyValidates ==
    [][handleSave =>
         LET parsed == JSONParse(configEditor[1].jsonText)
         IN /\ ~HasConfigKeys(parsed) =>
                  /\ configEditor'[1].error # <<>>
                  /\ configEditor'[1].lastOnSave = <<>>
                  /\ configEditor'[1].config = configEditor[1].config
                  /\ logs' = logs
            /\ configEditor'[1].lastOnSave # <<>> =>
                  /\ HasConfigKeys(parsed)
                  /\ configEditor'[1].lastOnSave = <<parsed.value>>
                  /\ configEditor'[1].config = parsed.value]_vars

\* a valid configuration was applied, then a text with two of the three keys was refused
C23_Witness ==
    /\ configEditor # <<>>
    /\ configEditor[1].config = AppConfig(Obj([hero |-> Str(<<"y">>)]), <<"q">>)
    /\ configEditor[1].jsonText =
           JSONStringify(Restrict(DEFAULT_CONFIG, {"prompts", "combos"}), 0)
    /\ configEditor[1].error = <<MissingKeys>>
    /\ configEditor[1].lastOnSave = <<>>

----------------------------------------------------------------------------
(* Batches under interference: a loaded document and a selection, then batches with *)
(* prompt edits, new selections, model switches and Clear between their steps       *)

\* a selection made before the first batch
StartFiles == <<"f3">>

StartDoc == [prompts |-> <<pA, pB>>, prompt_before |-> <<"B">>, prompt_after |-> <<>>,
             historic_cost |-> 0, historic_images |-> 0]

InitBatch ==
    /\ userDoc = <<StartDoc>>
    /\ isLoadingUserDoc = FALSE
    /\ aistudio = FALSE
    /\ hasKey = TRUE
    /\ selectedFiles = StartFiles
    /\ results = <<>>
    /\ logs = <<Log("info", "Selected file(s) from path.")>>
    /\ isProcessing = FALSE
    /\ tokenUsage = ZeroUsage
    /\ selectedModel \in Models
    /\ now = 0
    /\ runs = <<>>
    /\ issued = {}
    /\ failures = {}
    /\ usageAtStart = [images |-> 0, historic_images |-> 0]
    /\ resetSince = FALSE
    /\ localStorage = <<>>
    /\ editor = <<>>
    /\ remote = <<>>
    /\ saves = <<>>
    /\ tick = <<>>
    /\ edits = 0
    /\ lastEdit = <<>>
    /\ configEditor = <<>>
    /\ devices = <<>>

NextBatch ==
    \/ handlePromptsChange
    \/ handleFileSelect
    \/ changeModel
    \/ handleClear
    \/ handleProcess
    \/ GenerateResolved
    \/ GenerateFailed

SpecBatch == InitBatch /\ [][NextBatch]_vars

\* what identifies a task: everything but its status, image and error
TaskIdentity(list) ==
    [k \in 1..Len(list) |-> [id |-> list[k].id, files |-> list[k].files,
                              promptName |-> list[k].promptName,
                              promptText |-> list[k].promptText]]

\* C24: the task list of a batch is fixed at its start: one task per enabled prompt of the
\* document at start, in order, with the text composed then, each carrying the whole
\* selection made then; while the batch is in flight no step (edit of the prompts, new
\* selection, model switch, settled call) changes the number, order, text or images of the
\* tasks, in the loop's list or in the results shown.
C24_TasksFixedAtStart ==
    [][/\ (~isProcessing /\ isProcessing') =>
            LET tasks == runs'[Len(runs')].tasks
                enabledPrompts == EnabledPrompts(userDoc[1].prompts)
            IN /\ Len(tasks) = Len(enabledPrompts)
               /\ TaskIdentity(results') = TaskIdentity(tasks)
               /\ \A k \in 1..Len(tasks) :
                    /\ tasks[k].files = selectedFiles
                    /\ tasks[k].promptName = enabledPrompts[k].name
                    /\ tasks[k].promptText =
                          FullPrompt(userDoc[1].prompt_before, enabledPrompts[k].prompt,
                                     userDoc[1].prompt_after)
       /\ (isProcessing /\ isProcessing') =>
            /\ Len(runs') = Len(runs)
            /\ \A n \in 1..Len(runs) : runs'[n].tasks = runs[n].tasks
            /\ TaskIdentity(results') = TaskIdentity(results)
            /\ TaskIdentity(results') = TaskIdentity(runs'[1].tasks)]_vars

\* a batch of two tasks in flight on its second task, after the prompts were edited and
\* other files were selected
C24_Witness ==
    /\ isProcessing
    /\ Len(results) = 2
    /\ results[2].status = "processing"
    /\ results[1].files = StartFiles
    /\ results[2].files = StartFiles
    /\ selectedFiles # StartFiles
    /\ userDoc[1].prompts = <<pOff>>

\* C25: a drop of the dragged row on another row is a splice: the list keeps its length, the
\* moved item is at the index of the drop, and the list without it is the old list without
\* it (same items, same relative order), the edit is recorded; a drop on the dragged row
\* itself leaves the list, hasChanges and lastInputTime as they were.
C25_DropIsSplice ==
    [][handleDrop =>
         LET e == editor[1]
             from == e.draggedIndex[1]
             next == editor'[1]
         IN \/ /\ next.items = e.items
               /\ next.hasChanges = e.hasChanges
               /\ next.lastInputTime = e.lastInputTime
               /\ edits' = edits
               /\ saves' = saves
            \/ \E to \in 1..Len(e.items) :
                 /\ to # from
                 /\ Len(next.items) = Len(e.items)
                 /\ next.items[to] = e.items[from]
                 /\ RemoveAt(next.items, to) = RemoveAt(e.items, from)
                 /\ next.hasChanges
                 /\ next.lastInputTime = now]_vars

\* the first of three rows was dropped on the third: the other two moved up
C25_Witness ==
    /\ editor # <<>>
    /\ editor[1].items = <<pOff, NewPrompt, pA>>
    /\ editor[1].draggedIndex = <<>>
    /\ editor[1].hasChanges
    /\ edits = 2

\* C26: an edit made while a flush is in flight is not lost: when that flush completes,
\* resolved or rejected, hasChanges is still true; and the tick that flushes next does so
\* only when QuietThreshold periods have passed since that edit, and sends the snapshot
\* the edit left.
C26_EditDuringFlushKept ==
    [][/\ ((handleSavePromptsResolved \/ handleSavePromptsFailed) /\ editor[1].hasChanges)
            => editor'[1].hasChanges
       /\ (autoSaveTick /\ tick'[1].saved /\ lastEdit # <<>> /\ lastEdit[1].inFlight)
            => /\ now' - editor[1].lastInputTime >= QuietThreshold
               /\ saves'[Len(saves')] = lastEdit[1].snapshot]_vars

----------------------------------------------------------------------------
(* Task construction and the loop when every generation call is answered *)

SpecBuildLive ==
    InitBuild /\ [][NextBuild]_vars /\ WF_vars(GenerateResolved \/ GenerateFailed)

\* C27: every started batch terminates when each generation call resolves or fails:
\* isProcessing becomes false again; whenever no batch is running no task is `processing`;
\* and tasks are left `pending` only below a task that failed with the credential error.
C27_BatchTerminates ==
    /\ isProcessing ~> ~isProcessing
    /\ [](~isProcessing =>
            /\ runs = <<>>
            /\ \A j \in 1..Len(results) :
                 /\ results[j].status # "processing"
                 /\ results[j].status = "pending" =>
                      \E f \in failures : /\ IsCredentialFailure(f)
                                          /\ f.k < j
                                          /\ results[f.k].status = "failed")

\* a batch of two tasks ended by the credential error of its first call
C27_Witness ==
    /\ ~isProcessing
    /\ runs = <<>>
    /\ Len(results) = 2
    /\ results[1].status = "failed"
    /\ IsCredentialError(results[1].error)
    /\ results[2].status = "pending"

\* the breakdown shown for the selected model adds up to the session cost
CostConsistent ==
    LET b == GetCostBreakdown(tokenUsage, selectedModel)
    IN b.totalCost = b.inputCost + b.outputCost

\* a batch in flight was started under another model than the one now selected
StaleRun == \E n \in 1..Len(runs) : runs[n].selectedModel # selectedModel

\* C28 as stated: after any batches, Clear actions and model switches, a switch during a
\* batch in flight included, totalCost = inputCost + outputCost for the selected model.
C28_Original == CostConsistent

\* C28: totalCost = inputCost + outputCost for the selected model holds at the start, after
\* every Clear and model switch, and is kept by every step except the completion of a
\* call of a batch that was started under another model than the one now selected.
C28_ConsistentUnlessStaleCall ==
    /\ CostConsistent
    /\ [][/\ (changeModel \/ handleClear) => CostConsistent'
          /\ (CostConsistent /\ ~(GenerateResolved /\ StaleRun)) => CostConsistent']_vars

\* under the pro model, two calls since the switch that reset a flash session
C28_Witness ==
    /\ selectedModel = "gemini-3-pro-image-preview"
    /\ tokenUsage.images = 2
    /\ tokenUsage.total_cost = 508
    /\ tokenUsage.historic_cost = 39508
    /\ CostConsistent

----------------------------------------------------------------------------
(* Two browsers signed in to the same account: each has its own ledger and its own *)
(* copy of the user document; the lifetime pair of the remote document is shared    *)

Devices == {1, 2}

HistoricPair(t) == [historic_cost |-> t.historic_cost, historic_images |-> t.historic_images]

\* the "sync historic data to cloud" effect after the ledger of a device became t: when the
\* pair differs from the one the refs hold, the refs take it and updateUserDocument is
\* called with it, without waiting for the answer
SyncEffect(dev, t) ==
    IF HistoricPair(t) # dev.prevHistoric
    THEN [dev EXCEPT !.tokenUsage = t, !.prevHistoric = HistoricPair(t),
                     !.writes = Append(@, HistoricPair(t))]
    ELSE [dev EXCEPT !.tokenUsage = t]

\* the document arrives on a device: the load effect merges its pair into the ledger, then
\* the sync effect runs on the merged ledger
fetchUserDocOn(d) ==
    /\ devices[d].userDoc = <<>>
    /\ devices' = [devices EXCEPT
                      ![d] = SyncEffect([@ EXCEPT !.userDoc = remote],
                                        LoadHistoric(devices[d].tokenUsage, remote[1]))]
    /\ UNCHANGED <<userDoc, isLoadingUserDoc, hasKey, aistudio, selectedFiles, results, logs,
                   isProcessing, tokenUsage, selectedModel, now, runs, issued, failures,
                   usageAtStart, resetSince, localStorage, editor, remote, saves, tick,
                   edits, lastEdit, configEditor>>

\* a generation call of a batch on a device succeeds: addItem, then the sync effect
generateOn(d) ==
    /\ devices[d].userDoc # <<>>
    /\ devices[d].tokenUsage.historic_images < MaxImages
    /\ \E usage \in Usages, model \in Models :
         devices' = [devices EXCEPT
                       ![d] = SyncEffect(@, AddItem(FromJSON(ToJSON(devices[d].tokenUsage)),
                                                    usage.input, usage.output_text,
                                                    usage.output_image, model))]
    /\ UNCHANGED <<userDoc, isLoadingUserDoc, hasKey, aistudio, selectedFiles, results, logs,
                   isProcessing, tokenUsage, selectedModel, now, runs, issued, failures,
                   usageAtStart, resetSince, localStorage, editor, remote, saves, tick,
                   edits, lastEdit, configEditor>>

\* the oldest write of a device reaches the store: updateDoc sets the fields it was given
updateUserDocument(d) ==
    /\ devices[d].writes # <<>>
    /\ remote' = <<[remote[1] EXCEPT
                       !.historic_cost = Head(devices[d].writes).historic_cost,
                       !.historic_images = Head(devices[d].writes).historic_images]>>
    /\ devices' = [devices EXCEPT ![d].writes = Tail(@)]
    /\ UNCHANGED <<userDoc, isLoadingUserDoc, hasKey, aistudio, selectedFiles, results, logs,
                   isProcessing, tokenUsage, selectedModel, now, runs, issued, failures,
                   usageAtStart, resetSince, localStorage, editor, saves, tick, edits,
                   lastEdit, configEditor>>

\* both browsers open with an empty local ledger, the document not yet loaded
InitDevices ==
    /\ devices = [d \in Devices |->
                    [tokenUsage |-> ZeroUsage, userDoc |-> <<>>,
                     prevHistoric |-> HistoricPair(ZeroUsage), writes |-> <<>>]]
    /\ remote \in {<<h>> : h \in RemoteHistoric}
    /\ userDoc = <<>>
    /\ isLoadingUserDoc = TRUE
    /\ aistudio = FALSE
    /\ hasKey = TRUE
    /\ selectedFiles = <<>>
    /\ results = <<>>
    /\ logs = <<Log("info", "System initialized. Please select API Key and Files.")>>
    /\ isProcessing = FALSE
    /\ tokenUsage = ZeroUsage
    /\ selectedModel = "gemini-2.5-flash-image"
    /\ now = 0
    /\ runs = <<>>
    /\ issued = {}
    /\ failures = {}
    /\ usageAtStart = [images |-> 0, historic_images |-> 0]
    /\ resetSince = FALSE
    /\ localStorage = <<>>
    /\ editor = <<>>
    /\ saves = <<>>
    /\ tick = <<>>
    /\ edits = 0
    /\ lastEdit = <<>>
    /\ configEditor = <<>>

NextDevices ==
    \E d \in Devices :
      \/ fetchUserDocOn(d)
      \/ generateOn(d)
      \/ updateUserDocument(d)

SpecDevices == InitDevices /\ [][NextDevices]_vars

\* C29: with two devices of one user loading, merging and syncing, no write replaces the
\* remote lifetime cost or lifetime image count by a smaller value.
C29_RemoteNeverDecreases ==
    [][/\ remote'[1].historic_cost >= remote[1].historic_cost
       /\ remote'[1].historic_images >= remote[1].historic_images]_vars

\* C30: the tasks of one batch have pairwise distinct ids, whatever the prompt list, two
\* enabled prompts of the same name included.
C30_TaskIdsDistinct ==
    \A n \in 1..Len(runs) :
      \A j, k \in 1..Len(runs[n].tasks) :
        j # k => runs[n].tasks[j].id # runs[n].tasks[k].id

====
